---- MODULE Spec2Model ----
(***************************************************************************)
(* Model of waveform-render-vscode (src/src/extension.ts):                 *)
(*   - the ASCII-art renderer, padEnd and generateAsciiArt, with the calls *)
(*     a caller makes on them (Spec);                                      *)
(*   - the command waveform-render.generateAscii (CommandSpec);            *)
(*   - the webview panel and its live preview: the commands                *)
(*     waveformRender.start and waveformRender.toggleLivePreview, the      *)
(*     text-change listener and the closing of the panel (PanelSpec).      *)
(*                                                                         *)
(* A JavaScript string is a sequence of UTF-16 code units; a code unit is  *)
(* written as a one-character TLA+ string, except U+203E (OVERLINE), which *)
(* is written "U+203E" and stands for that single code unit.               *)
(***************************************************************************)
EXTENDS Integers, Sequences, FiniteSets, TLC

VARIABLES
    signals,    \* the signal array the renderer is called on
    pc,         \* "ready", "rendered" or "compared"
    result,     \* completion of generateAsciiArt(signals)
    signals2,   \* the signal array of the second call
    result2,    \* completion of generateAsciiArt(signals2)
    rel         \* how signals2 was derived from signals

rendererVars == <<signals, pc, result, signals2, result2, rel>>

VARIABLES
    cmdPc,      \* "idle" before the generateAscii command ran, "done" after
    cmdInput,   \* what the run was given: the dialog's result and the file
    cmdLog,     \* the calls the handler made on the host, in order
    cmdEscaped  \* whether an exception left the handler

commandVars == <<cmdPc, cmdInput, cmdLog, cmdEscaped>>

VARIABLES
    currentPanel,             \* WaveformRenderPanel.currentPanel: 0 (undefined) or a panel
    livePreview,              \* WaveformRenderPanel.livePreview
    livePreviewDocumentPath,  \* WaveformRenderPanel.livePreviewDocumentPath
    listenerTextChange,       \* WaveformRenderPanel.listenerTextChange: 0 (undefined) or a subscription
    subscriptions,            \* the host's onDidChangeTextDocument subscriptions: TRUE while not disposed
    panels,                   \* the host's webview panels: title, html, disposed
    activeTextEditor,         \* vscode.window.activeTextEditor: 0 (undefined) or a document
    documents,                \* the version of the text of each open document
    notice,                   \* the last message shown by showInformationMessage
    last                      \* the last event and whether its handler threw

panelVars == <<currentPanel, livePreview, livePreviewDocumentPath, listenerTextChange,
               subscriptions, panels, activeTextEditor, documents, notice, last>>

vars == <<rendererVars, commandVars, panelVars>>

-----------------------------------------------------------------------------
(* Bounds of the model.                                                    *)

MaxNameLen == 11
MaxWaveLen == 3
MaxSignals == 3
MaxPanels == 2
MaxSubscriptions == 2
MaxEdits == 2

-----------------------------------------------------------------------------
(* JavaScript values and completions.                                      *)

Overline == "U+203E"

\* The value read from a property that is absent, and a string value.
Undefined == [t |-> "undefined", v |-> <<>>]
Str(s) == [t |-> "string", v |-> s]

\* A call either returns a string or throws a TypeError.
Return(v) == [kind |-> "return", value |-> v]
Throw == [kind |-> "TypeError", value |-> <<>>]

\* obj.key: the property when the object has it, undefined otherwise.
Get(obj, key) == IF key \in DOMAIN obj THEN Str(obj[key]) ELSE Undefined

-----------------------------------------------------------------------------
(* padEnd, extension.ts 12-17.                                             *)

TargetLength == 10

\* String.prototype.repeat(count), count >= 0.
RECURSIVE repeat(_, _)
repeat(padChar, count) ==
    IF count <= 0 THEN <<>> ELSE padChar \o repeat(padChar, count - 1)

\* padEnd padding one short of the target length.
padEndOneShort(str, targetLength, padChar) ==
    IF str.t = "undefined" THEN Throw
    ELSE IF Len(str.v) >= targetLength THEN Return(str.v)
    ELSE Return(str.v \o repeat(padChar, targetLength - Len(str.v) - 1))

\* padEnd cutting a longer string down to the target length.
padEndTruncating(str, targetLength, padChar) ==
    IF str.t = "undefined" THEN Throw
    ELSE IF Len(str.v) >= targetLength THEN Return(SubSeq(str.v, 1, targetLength))
    ELSE Return(str.v \o repeat(padChar, targetLength - Len(str.v)))

\* str.length throws a TypeError when str is undefined.
padEnd(str, targetLength, padChar) ==
    IF str.t = "undefined" THEN Throw
    ELSE IF Len(str.v) >= targetLength THEN Return(str.v)
    ELSE Return(str.v \o repeat(padChar, targetLength - Len(str.v)))

-----------------------------------------------------------------------------
(* generateAsciiArt, extension.ts 24-41.                                   *)

\* The table with the run of "P" narrowed to the width of the others.
waveMappingUniform ==
    [char \in {"P", "0", "1", ".", "x", "="} |->
        CASE char = "P" -> <<"|", Overline, Overline, "|">>
          [] char = "0" -> <<"_", "_", "_", "_">>
          [] char = "1" -> <<Overline, Overline, Overline, Overline>>
          [] char = "." -> <<" ", " ", " ", " ">>
          [] char = "x" -> <<"x", "x", "x", "x">>
          [] char = "=" -> <<"=", "=", "=", "=">>]

waveMapping ==
    [char \in {"P", "0", "1", ".", "x", "="} |->
        CASE char = "P" -> <<"|", Overline, Overline, Overline, Overline, "|">>
          [] char = "0" -> <<"_", "_", "_", "_">>
          [] char = "1" -> <<Overline, Overline, Overline, Overline>>
          [] char = "." -> <<" ", " ", " ", " ">>
          [] char = "x" -> <<"x", "x", "x", "x">>
          [] char = "=" -> <<"=", "=", "=", "=">>]

Placeholder == <<"?", "?", "?", "?">>

\* wave.split(''): the array of the one-code-unit strings of wave.
split(wave) == [i \in 1..Len(wave) |-> <<wave[i]>>]

\* The lookup echoing a code unit the table lacks instead of the placeholder.
mapCharEcho(char) ==
    IF char[1] \in DOMAIN waveMapping /\ waveMapping[char[1]] # <<>>
    THEN waveMapping[char[1]]
    ELSE <<char[1], char[1], char[1], char[1]>>

\* char => waveMapping[char] || '????' (char is a one-code-unit string;
\* a missing key reads undefined and an empty string is falsy).
mapChar(char) ==
    IF char[1] \in DOMAIN waveMapping /\ waveMapping[char[1]] # <<>>
    THEN waveMapping[char[1]]
    ELSE Placeholder

\* Array.prototype.map(char => ...)
map(chars) == [i \in 1..Len(chars) |-> mapChar(chars[i])]

\* join() with its default separator, ",".
RECURSIVE joinComma(_)
joinComma(runs) ==
    IF runs = <<>> THEN <<>>
    ELSE IF Len(runs) = 1 THEN Head(runs)
    ELSE Head(runs) \o <<",">> \o joinComma(Tail(runs))

\* Array.prototype.join('')
RECURSIVE join(_)
join(runs) == IF runs = <<>> THEN <<>> ELSE Head(runs) \o join(Tail(runs))

\* The loop body putting the line before the text so far.
loopBodyPrepending(asciiArt, signal) ==
    LET label == padEnd(Get(signal, "name"), TargetLength, <<" ">>)
        waveProp == Get(signal, "wave")
    IN  IF label.kind # "return" THEN label
        ELSE IF waveProp.t = "undefined" THEN Throw
        ELSE Return(label.value \o <<":", " ">>
                    \o join(map(split(waveProp.v))) \o <<"\n">> \o asciiArt)

\* The loop body assigning the line (=) instead of appending it (+=).
loopBodyAssigning(asciiArt, signal) ==
    LET label == padEnd(Get(signal, "name"), TargetLength, <<" ">>)
        waveProp == Get(signal, "wave")
    IN  IF label.kind # "return" THEN label
        ELSE IF waveProp.t = "undefined" THEN Throw
        ELSE Return(label.value \o <<":", " ">>
                    \o join(map(split(waveProp.v))) \o <<"\n">>)

\* The loop body writing the data labels of the signal after its wave.
loopBodyWithData(asciiArt, signal) ==
    LET label == padEnd(Get(signal, "name"), TargetLength, <<" ">>)
        waveProp == Get(signal, "wave")
        labels == IF "data" \in DOMAIN signal THEN join(signal["data"]) ELSE <<>>
    IN  IF label.kind # "return" THEN label
        ELSE IF waveProp.t = "undefined" THEN Throw
        ELSE Return(asciiArt \o label.value \o <<":", " ">>
                    \o join(map(split(waveProp.v))) \o labels \o <<"\n">>)

\* One iteration of the for loop: the completion holding asciiArt after the
\* body ran on signal, or the TypeError the body threw.
loopBody(asciiArt, signal) ==
    LET label == padEnd(Get(signal, "name"), TargetLength, <<" ">>)
        waveProp == Get(signal, "wave")
    IN  IF label.kind # "return" THEN label
        ELSE IF waveProp.t = "undefined" THEN Throw
        ELSE Return(asciiArt \o label.value \o <<":", " ">>
                    \o join(map(split(waveProp.v))) \o <<"\n">>)

RECURSIVE loop(_, _, _)
loop(sigs, i, asciiArt) ==
    IF i > Len(sigs) THEN Return(asciiArt)
    ELSE LET step == loopBody(asciiArt, sigs[i])
         IN  IF step.kind # "return" THEN step
             ELSE loop(sigs, i + 1, step.value)

\* The renderer joining the lines with newlines and ending the text with one.
generateAsciiArtJoiningLines(sigs) ==
    IF sigs = <<>> THEN Return(<<"\n">>) ELSE loop(sigs, 1, <<>>)

generateAsciiArt(sigs) == loop(sigs, 1, <<>>)

-----------------------------------------------------------------------------
(* The inputs: signal objects as JSON.parse produces them.  A signal is a  *)
(* function from the property names it has to their values; an optional   *)
(* property is given as <<>> (absent) or <<value>> (present).              *)

None == <<>>
Some(value) == <<value>>

Signal(name, wave, data) ==
    [key \in {"name" : i \in 1..Len(name)} \cup {"wave" : i \in 1..Len(wave)}
             \cup {"data" : i \in 1..Len(data)} |->
        CASE key = "name" -> name[1]
          [] key = "wave" -> wave[1]
          [] key = "data" -> data[1]]

\* Code units a wave may hold: the six tokens of the table, and "p" and "|"
\* (used by the panel's sample document, extension.ts 240), which it lacks.
WaveChars == {"P", "0", "1", ".", "x", "=", "p", "|"}

RECURSIVE SeqsUpTo(_, _)
SeqsUpTo(S, n) ==
    IF n = 0 THEN {<<>>}
    ELSE LET shorter == SeqsUpTo(S, n - 1)
         IN  shorter \cup {Append(s, c) : s \in {t \in shorter : Len(t) = n - 1}, c \in S}

Waves == SeqsUpTo(WaveChars, MaxWaveLen)

NameText == <<"A", "c", "k", "n", "o", "w", "l", "e", "d", "g", "e">>
NameOfLen(n) == [i \in 1..n |-> NameText[((i - 1) % Len(NameText)) + 1]]
clk == <<"c", "l", "k">>
Data == <<"D", "a", "t", "a">>
Names == {NameOfLen(n) : n \in 0..MaxNameLen} \cup {clk, Data, <<"a", "\n", "b">>}

head == <<"h", "e", "a", "d">>
body == <<"b", "o", "d", "y">>
DataOpts == {None, Some(<<>>), Some(<<head, body>>)}

Opt(S) == {None} \cup {Some(x) : x \in S}

\* One signal: every wave under a few names, and every name under a few waves.
SingleInputs ==
    {<<Signal(n, w, None)>> : n \in {None, Some(clk)}, w \in Opt(Waves)}
    \cup {<<Signal(n, w, None)>> : n \in Opt(Names),
                                   w \in {None, Some(<<>>), Some(<<"P", ".">>)}}

\* Several signals: every list of up to MaxSignals signals of a pool.
Pool ==
    { Signal(None, None, None),
      Signal(Some(clk), Some(<<"P", ".">>), None),
      Signal(Some(Data), Some(<<"0", "1", "x">>), None),
      Signal(Some(Data), Some(<<"x", "=">>), Some(<<head>>)),
      Signal(Some(NameText), Some(<<"p", "=">>), None),
      Signal(Some(<<"a", "\n", "b">>), Some(<<>>), None) }

PoolInputs == SeqsUpTo(Pool, MaxSignals)

Inputs == SingleInputs \cup PoolInputs

-----------------------------------------------------------------------------
(* The state of the generateAscii command before it has run.               *)

NoFile == [readable |-> FALSE, valid |-> FALSE, value |-> [t |-> "null", v |-> <<>>]]
NoInput == [fileUri |-> Undefined, file |-> NoFile, openOk |-> TRUE]

CommandIdle ==
    /\ cmdPc = "idle"
    /\ cmdInput = NoInput
    /\ cmdLog = <<>>
    /\ cmdEscaped = FALSE

-----------------------------------------------------------------------------
(* The state of the panel after activate(): the statics of                 *)
(* WaveformRenderPanel as declared (extension.ts 125-129), no panel, no     *)
(* subscription, and the documents at their first version.  Documents are  *)
(* numbered from 1.                                                        *)

Docs == {1, 2}
NoEvent == [op |-> "none", doc |-> 0, threw |-> FALSE]

PanelStatics ==
    /\ currentPanel = 0
    /\ livePreview = FALSE
    /\ livePreviewDocumentPath = Undefined
    /\ listenerTextChange = 0
    /\ subscriptions = <<>>
    /\ panels = <<>>
    /\ documents = [d \in Docs |-> 0]
    /\ notice = ""
    /\ last = NoEvent

PanelIdle == PanelStatics /\ activeTextEditor = 0

-----------------------------------------------------------------------------
(* The calls.                                                              *)

NotCalled == [kind |-> "none", value |-> <<>>]
NoRel == [op |-> "none", perm |-> <<>>]

Init ==
    /\ signals \in Inputs
    /\ pc = "ready"
    /\ result = NotCalled
    /\ signals2 = <<>>
    /\ result2 = NotCalled
    /\ rel = NoRel
    /\ CommandIdle
    /\ PanelIdle

\* generateAsciiArt(parsedContent.signal), extension.ts 89.
Render ==
    /\ pc = "ready"
    /\ result' = generateAsciiArt(signals)
    /\ pc' = "rendered"
    /\ UNCHANGED <<signals, signals2, result2, rel, commandVars, panelVars>>

Perms(n) == {p \in [1..n -> 1..n] : \A i, j \in 1..n : p[i] = p[j] => i = j}
Permute(sigs, p) == [j \in 1..Len(sigs) |-> sigs[p[j]]]

\* A second call, on the same signals in another order.
RenderPermuted(p) ==
    /\ pc = "rendered"
    /\ signals2' = Permute(signals, p)
    /\ result2' = generateAsciiArt(signals2')
    /\ rel' = [op |-> "perm", perm |-> p]
    /\ pc' = "compared"
    /\ UNCHANGED <<signals, result, commandVars, panelVars>>

SetData(signal, data) ==
    Signal(IF "name" \in DOMAIN signal THEN Some(signal["name"]) ELSE None,
           IF "wave" \in DOMAIN signal THEN Some(signal["wave"]) ELSE None,
           data)

\* A second call, on the same signals with each signal's data set, changed or
\* removed as datas says.
RenderWithData(datas) ==
    /\ pc = "rendered"
    /\ signals2' = [i \in 1..Len(signals) |-> SetData(signals[i], datas[i])]
    /\ result2' = generateAsciiArt(signals2')
    /\ rel' = [op |-> "data", perm |-> <<>>]
    /\ pc' = "compared"
    /\ UNCHANGED <<signals, result, commandVars, panelVars>>

Next ==
    \/ Render
    \/ \E p \in Perms(Len(signals)) : RenderPermuted(p)
    \/ \E datas \in [1..Len(signals) -> DataOpts] : RenderWithData(datas)

Spec == Init /\ [][Next]_vars

TypeOK ==
    /\ pc \in {"ready", "rendered", "compared"}
    /\ result.kind \in {"none", "return", "TypeError"}
    /\ result2.kind \in {"none", "return", "TypeError"}

-----------------------------------------------------------------------------
(* The command waveform-render.generateAscii, extension.ts 62-103.         *)

\* What JSON.parse decodes to: a value with its type.  A primitive carries
\* its value in a one-element sequence, an object its properties (a function
\* from the names it has), an array its elements.
JNull == [t |-> "null", v |-> <<>>]
JBool(b) == [t |-> "boolean", v |-> <<b>>]
JNumber(n) == [t |-> "number", v |-> <<n>>]
JString(chars) == [t |-> "string", v |-> <<chars>>]
JObject(props) == [t |-> "object", v |-> <<props>>]
JArray(elements) == [t |-> "array", v |-> elements]

\* !value is false: null, false, 0 and "" are falsy.
Truthy(value) ==
    CASE value.t = "undefined" -> FALSE
      [] value.t = "null" -> FALSE
      [] value.t = "boolean" -> value.v[1]
      [] value.t = "number" -> value.v[1] # 0
      [] value.t = "string" -> value.v[1] # <<>>
      [] OTHER -> TRUE

\* value.signal, for a value that is neither null nor undefined.
SignalOf(value) ==
    IF value.t = "object" /\ "signal" \in DOMAIN value.v[1]
    THEN value.v[1]["signal"]
    ELSE Undefined

\* Array.isArray(value)
IsArray(value) == value.t = "array"

\* The messages of the handler.
NoFileSelected == "No file selected."
MissingSignalArray == "Invalid WaveDrom JSON file: Missing \"signal\" array."
ErrorOccurred == "An error occurred while generating ASCII Art. See console for details."

\* One call of the handler on the host, or of the renderer.
Call(fn, msg, text) == [fn |-> fn, msg |-> msg, text |-> text]

\* The catch clause, extension.ts 98-102.
Caught(log) ==
    [log |-> log \o << Call("console.error", "Error generating ASCII Art:", <<>>),
                       Call("showErrorMessage", ErrorOccurred, <<>>) >>,
     escaped |-> FALSE]

Completed(log) == [log |-> log, escaped |-> FALSE]

\* The handler with its try statement left out: what is thrown leaves it.
generateAsciiHandlerNoCatch(fileUri, file, openOk) ==
    LET log1 == << Call("showOpenDialog", "", <<>>) >>
    IN  IF fileUri.t = "undefined" \/ Len(fileUri.v) = 0
        THEN Completed(Append(log1, Call("showWarningMessage", NoFileSelected, <<>>)))
        ELSE
        LET log2 == Append(log1, Call("readFileSync", "", <<>>))
        IN  IF ~file.readable THEN [log |-> log2, escaped |-> TRUE]
            ELSE
            LET log3 == Append(log2, Call("JSON.parse", "", <<>>))
            IN  IF ~file.valid THEN [log |-> log3, escaped |-> TRUE]
                ELSE
                LET parsedContent == file.value
                IN  IF ~Truthy(parsedContent) \/ ~IsArray(SignalOf(parsedContent))
                    THEN Completed(Append(log3,
                             Call("showErrorMessage", MissingSignalArray, <<>>)))
                    ELSE
                    LET asciiArt == generateAsciiArt(SignalOf(parsedContent).v)
                        log4 == Append(log3, Call("generateAsciiArt", asciiArt.kind,
                                                  asciiArt.value))
                    IN  IF asciiArt.kind # "return" THEN [log |-> log4, escaped |-> TRUE]
                        ELSE
                        LET open == Call("openTextDocument",
                                         IF openOk THEN "resolved" ELSE "rejected",
                                         asciiArt.value)
                            log5 == Append(log4, open)
                        IN  IF ~openOk THEN [log |-> log5, escaped |-> TRUE]
                            ELSE Completed(Append(log5,
                                     Call("showTextDocument", "", asciiArt.value)))

\* The handler without its check of the decoded value, extension.ts 83-86.
generateAsciiHandlerNoShapeCheck(fileUri, file, openOk) ==
    LET log1 == << Call("showOpenDialog", "", <<>>) >>
    IN  IF fileUri.t = "undefined" \/ Len(fileUri.v) = 0
        THEN Completed(Append(log1, Call("showWarningMessage", NoFileSelected, <<>>)))
        ELSE
        LET log2 == Append(log1, Call("readFileSync", "", <<>>))
        IN  IF ~file.readable THEN Caught(log2)
            ELSE
            LET log3 == Append(log2, Call("JSON.parse", "", <<>>))
            IN  IF ~file.valid THEN Caught(log3)
                ELSE
                LET parsedContent == file.value
                    signal == IF parsedContent.t \in {"null", "undefined"}
                              THEN Undefined ELSE SignalOf(parsedContent)
                IN  IF parsedContent.t = "null" THEN Caught(log3)
                    ELSE IF ~IsArray(signal)
                    THEN Caught(Append(log3, Call("generateAsciiArt", "TypeError", <<>>)))
                    ELSE
                    LET asciiArt == generateAsciiArt(signal.v)
                        log4 == Append(log3, Call("generateAsciiArt", asciiArt.kind,
                                                  asciiArt.value))
                    IN  IF asciiArt.kind # "return" THEN Caught(log4)
                        ELSE
                        LET open == Call("openTextDocument",
                                         IF openOk THEN "resolved" ELSE "rejected",
                                         asciiArt.value)
                            log5 == Append(log4, open)
                        IN  IF ~openOk THEN Caught(log5)
                            ELSE Completed(Append(log5,
                                     Call("showTextDocument", "", asciiArt.value)))

\* The handler: the calls it makes, in order, and whether an exception leaves
\* it.  fileUri is what showOpenDialog resolves to; file is the chosen file
\* (whether readFileSync can read it, whether JSON.parse accepts its content,
\* and what the content decodes to); openOk is FALSE when openTextDocument
\* rejects.
generateAsciiHandler(fileUri, file, openOk) ==
    LET log1 == << Call("showOpenDialog", "", <<>>) >>
    IN  IF fileUri.t = "undefined" \/ Len(fileUri.v) = 0
        THEN Completed(Append(log1, Call("showWarningMessage", NoFileSelected, <<>>)))
        ELSE
        LET log2 == Append(log1, Call("readFileSync", "", <<>>))
        IN  IF ~file.readable THEN Caught(log2)
            ELSE
            LET log3 == Append(log2, Call("JSON.parse", "", <<>>))
            IN  IF ~file.valid THEN Caught(log3)
                ELSE
                LET parsedContent == file.value
                IN  IF ~Truthy(parsedContent) \/ ~IsArray(SignalOf(parsedContent))
                    THEN Completed(Append(log3,
                             Call("showErrorMessage", MissingSignalArray, <<>>)))
                    ELSE
                    LET asciiArt == generateAsciiArt(SignalOf(parsedContent).v)
                        log4 == Append(log3, Call("generateAsciiArt", asciiArt.kind,
                                                  asciiArt.value))
                    IN  IF asciiArt.kind # "return" THEN Caught(log4)
                        ELSE
                        LET open == Call("openTextDocument",
                                         IF openOk THEN "resolved" ELSE "rejected",
                                         asciiArt.value)
                            log5 == Append(log4, open)
                        IN  IF ~openOk THEN Caught(log5)
                            ELSE Completed(Append(log5,
                                     Call("showTextDocument", "", asciiArt.value)))

\* What showOpenDialog resolves to: undefined (dismissed), no URI, one URI.
DialogResults == {Undefined, JArray(<<>>), JArray(<< <<"f", "i", "l", "e">> >>)}

\* What the content of a file decodes to.
ShapelessValues ==
    { JNull, JBool(FALSE), JBool(TRUE), JNumber(0), JNumber(5),
      JString(<<>>), JString(<<"x">>), JArray(<<>>), JObject(<<>>),
      JObject([name |-> JString(clk)]),
      JObject([signal |-> JNull]),
      JObject([signal |-> JNumber(5)]),
      JObject([signal |-> JString(<<"0", "1">>)]),
      JObject([signal |-> JObject(<<>>)]) }

DocumentValues == {JObject([signal |-> JArray(sigs)]) : sigs \in Inputs}

\* The files: one readFileSync cannot read, one JSON.parse rejects, and one
\* for each decoded value.
Files ==
    { NoFile, [readable |-> TRUE, valid |-> FALSE, value |-> JNull] }
    \cup {[readable |-> TRUE, valid |-> TRUE, value |-> value] :
              value \in ShapelessValues \cup DocumentValues}

CommandInputs ==
    {[fileUri |-> fileUri, file |-> NoFile, openOk |-> TRUE] :
         fileUri \in {d \in DialogResults : d.t = "undefined" \/ Len(d.v) = 0}}
    \cup {[fileUri |-> fileUri, file |-> file, openOk |-> openOk] :
              fileUri \in {d \in DialogResults : d.t = "array" /\ Len(d.v) > 0},
              file \in Files, openOk \in BOOLEAN}

\* The renderer's harness at rest.
RendererIdle ==
    /\ signals = <<>>
    /\ pc = "ready"
    /\ result = NotCalled
    /\ signals2 = <<>>
    /\ result2 = NotCalled
    /\ rel = NoRel

CommandInit == RendererIdle /\ CommandIdle /\ PanelIdle

\* One run of the command, from the dialog to the end of the handler.
GenerateAscii(input) ==
    /\ cmdPc = "idle"
    /\ LET run == generateAsciiHandler(input.fileUri, input.file, input.openOk)
       IN  cmdLog' = run.log /\ cmdEscaped' = run.escaped
    /\ cmdInput' = input
    /\ cmdPc' = "done"
    /\ UNCHANGED <<rendererVars, panelVars>>

CommandNext == \E input \in CommandInputs : GenerateAscii(input)

CommandSpec == CommandInit /\ [][CommandNext]_vars

-----------------------------------------------------------------------------
(* The webview panel and live preview, extension.ts 47-59 and 107-248.     *)
(*                                                                         *)
(* The handlers are operators on st, the statics of WaveformRenderPanel    *)
(* with the host's subscriptions and panels, the last message shown and    *)
(* whether the handler threw; env is what they read of the host: the       *)
(* active editor and the documents.                                        *)

\* document.fileName and document.uri.path of the documents: one with POSIX
\* separators and one with Windows separators.
DocFileName(d) ==
    IF d = 1 THEN <<"/", "w", "/", "a", ".", "j">>
    ELSE <<"c", ":", "\\", "w", "\\", "b", ".", "j">>

DocPath(d) ==
    IF d = 1 THEN <<"/", "w", "/", "a", ".", "j">>
    ELSE <<"/", "c", ":", "/", "w", "/", "b", ".", "j">>

\* doc.getText(): the text of document d at its current version.
getText(env, d) == [doc |-> d, version |-> env.documents[d]]

\* str.split(sep).pop(): what follows the last sep in str.
SplitPop(str, sep) ==
    LET at == {k \in 1..Len(str) : str[k] = sep}
    IN  IF at = {} THEN str
        ELSE SubSeq(str, (CHOOSE k \in at : \A m \in at : m <= k) + 1, Len(str))

TitlePrefix ==
    <<"W", "a", "v", "e", "f", "o", "r", "m", " ", "R", "e", "n", "d", "e", "r", ":", " ">>

\* getTitle(), extension.ts 107-116, with an active editor.
getTitle(env) ==
    TitlePrefix \o SplitPop(SplitPop(DocFileName(env.activeTextEditor), "\\"), "/")

\* _getHtmlForWebview(waveformJson), extension.ts 250-292: the page that
\* loads the scripts and holds waveformJson.
getHtmlForWebview(waveformJson) == [page |-> "WaveDrom", waveformJson |-> waveformJson]

NoHtml == [page |-> "", waveformJson |-> [doc |-> 0, version |-> 0]]

Threw(st) == [st EXCEPT !.threw = TRUE]

\* _updateWithFileContent() of panel p, extension.ts 228-248, with an active
\* editor.
updateWithFileContent(st, env, p) ==
    [st EXCEPT !.panels[p].html =
        getHtmlForWebview(getText(env, env.activeTextEditor))]

\* disableLivePreview without the disposal of the listener.
disableLivePreviewKeepingListener(st) ==
    [st EXCEPT !.livePreviewDocumentPath = [t |-> "null", v |-> <<>>],
               !.livePreview = FALSE]

\* disableLivePreview(), extension.ts 156-162.  Disposing a subscription a
\* second time does nothing.
disableLivePreview(st) ==
    LET st1 == [st EXCEPT !.livePreviewDocumentPath = [t |-> "null", v |-> <<>>]]
        st2 == IF st1.listenerTextChange # 0
               THEN [st1 EXCEPT !.subscriptions[st1.listenerTextChange] = FALSE]
               ELSE st1
    IN  [st2 EXCEPT !.livePreview = FALSE]

\* The new-panel branch of createOrShow and the constructor, extension.ts
\* 181-212.  getTitle() is evaluated before createWebviewPanel is called and
\* throws a TypeError without an active editor.
createPanel(st, env) ==
    IF env.activeTextEditor = 0 THEN Threw(st)
    ELSE LET p == Len(st.panels) + 1
             created == [st EXCEPT !.panels =
                            Append(st.panels, [title |-> getTitle(env), html |-> NoHtml,
                                               disposed |-> FALSE])]
             constructed == updateWithFileContent(created, env, p)
         IN  [constructed EXCEPT !.currentPanel = p]

\* createOrShow without its check for an existing panel.
createOrShowAlwaysCreating(st, env) == createPanel(st, env)

\* createOrShow(extensionPath), extension.ts 164-201.
createOrShow(st, env) ==
    IF st.currentPanel # 0
    THEN IF st.livePreview /\ env.activeTextEditor = 0 THEN Threw(st)
         ELSE IF st.livePreview
                 /\ st.livePreviewDocumentPath.v # DocPath(env.activeTextEditor)
         THEN st
         ELSE IF env.activeTextEditor = 0 THEN Threw(st)
         ELSE updateWithFileContent(
                  [st EXCEPT !.panels[st.currentPanel].title = getTitle(env)],
                  env, st.currentPanel)
    ELSE createPanel(st, env)

\* toggleLivePreview(extensionPath), extension.ts 137-154.
toggleLivePreview(st, env) ==
    IF st.livePreview
    THEN [disableLivePreview(st) EXCEPT !.notice = "Waveform Live Preview: OFF"]
    ELSE IF env.activeTextEditor = 0 THEN Threw(st)
    ELSE LET id == Len(st.subscriptions) + 1
             st1 == [st EXCEPT !.livePreviewDocumentPath = Str(DocPath(env.activeTextEditor)),
                               !.listenerTextChange = id,
                               !.subscriptions = Append(st.subscriptions, TRUE),
                               !.livePreview = TRUE]
             st2 == createOrShow(st1, env)
         IN  IF st2.threw THEN st2
             ELSE [st2 EXCEPT !.notice = "Waveform Live Preview: ON"]

\* The start handler without its call of disableLivePreview.
startHandlerKeepingLivePreview(st, env) ==
    createOrShow([st EXCEPT !.notice = "Waveform refreshed manually, Live Preview OFF"],
                 env)

\* The handler of waveformRender.start, extension.ts 47-53.
startHandler(st, env) ==
    createOrShow([disableLivePreview(st) EXCEPT
                      !.notice = "Waveform refreshed manually, Live Preview OFF"],
                 env)

\* The listener of onDidChangeTextDocument, extension.ts 144-146, called once
\* for each subscription that is not disposed.
RECURSIVE fireTextChange(_, _, _)
fireTextChange(st, env, id) ==
    IF id > Len(st.subscriptions) THEN st
    ELSE IF st.subscriptions[id]
    THEN LET st1 == createOrShow(st, env)
         IN  fireTextChange(st1, env, id + 1)
    ELSE fireTextChange(st, env, id + 1)

\* dispose leaving currentPanel as it is.
disposeKeepingCurrent(st, p) == [st EXCEPT !.panels[p].disposed = TRUE]

\* The panel p is closed and its onDidDispose listener runs dispose(),
\* extension.ts 211 and 214-226.
dispose(st, p) ==
    [st EXCEPT !.currentPanel = 0, !.panels[p].disposed = TRUE]

\* The state the handlers work on, and its assignment to the variables.
State ==
    [currentPanel |-> currentPanel, livePreview |-> livePreview,
     livePreviewDocumentPath |-> livePreviewDocumentPath,
     listenerTextChange |-> listenerTextChange, subscriptions |-> subscriptions,
     panels |-> panels, notice |-> notice, threw |-> FALSE]

Env == [activeTextEditor |-> activeTextEditor, documents |-> documents]

Becomes(st, op, doc) ==
    /\ Len(st.panels) <= MaxPanels
    /\ Len(st.subscriptions) <= MaxSubscriptions
    /\ currentPanel' = st.currentPanel
    /\ livePreview' = st.livePreview
    /\ livePreviewDocumentPath' = st.livePreviewDocumentPath
    /\ listenerTextChange' = st.listenerTextChange
    /\ subscriptions' = st.subscriptions
    /\ panels' = st.panels
    /\ notice' = st.notice
    /\ last' = [op |-> op, doc |-> doc, threw |-> st.threw]

\* The command waveformRender.start.
Start ==
    /\ Becomes(startHandler(State, Env), "start", 0)
    /\ UNCHANGED <<activeTextEditor, documents, rendererVars, commandVars>>

\* The command waveformRender.toggleLivePreview.
ToggleLivePreview ==
    /\ Becomes(toggleLivePreview(State, Env), "toggle", 0)
    /\ UNCHANGED <<activeTextEditor, documents, rendererVars, commandVars>>

\* The text of document d changes, whichever editor is active, and the host
\* fires onDidChangeTextDocument.
ChangeTextDocument(d) ==
    /\ documents[d] < MaxEdits
    /\ documents' = [documents EXCEPT ![d] = @ + 1]
    /\ Becomes(fireTextChange(State, [Env EXCEPT !.documents = documents'], 1), "edit", d)
    /\ UNCHANGED <<activeTextEditor, rendererVars, commandVars>>

\* The user makes another editor, or none, the active one.
ChangeActiveEditor(e) ==
    /\ e # activeTextEditor
    /\ activeTextEditor' = e
    /\ last' = [op |-> "activate", doc |-> e, threw |-> FALSE]
    /\ UNCHANGED <<currentPanel, livePreview, livePreviewDocumentPath, listenerTextChange,
                   subscriptions, panels, documents, notice, rendererVars, commandVars>>

\* The user closes panel p.
ClosePanel(p) ==
    /\ ~panels[p].disposed
    /\ Becomes(dispose(State, p), "close", 0)
    /\ UNCHANGED <<activeTextEditor, documents, rendererVars, commandVars>>

PanelInit ==
    /\ RendererIdle
    /\ CommandIdle
    /\ PanelStatics
    /\ activeTextEditor \in Docs \cup {0}

PanelNext ==
    \/ Start
    \/ ToggleLivePreview
    \/ \E d \in Docs : ChangeTextDocument(d)
    \/ \E e \in Docs \cup {0} : ChangeActiveEditor(e)
    \/ \E p \in 1..Len(panels) : ClosePanel(p)

PanelSpec == PanelInit /\ [][PanelNext]_vars

-----------------------------------------------------------------------------
(* Reading the output.                                                     *)

\* The six tokens of the token table and the widths of their runs.
Tokens == {"P", "0", "1", ".", "x", "="}
Width(char) == IF char = "P" THEN 6 ELSE 4

Has(signal, key) == key \in DOMAIN signal
NameOf(signal) == IF Has(signal, "name") THEN signal["name"] ELSE <<>>
WaveOf(signal) == IF Has(signal, "wave") THEN signal["wave"] ELSE <<>>
Complete(sigs) == \A i \in 1..Len(sigs) : Has(sigs[i], "name") /\ Has(sigs[i], "wave")

RECURSIVE Concat(_)
Concat(texts) == IF texts = <<>> THEN <<>> ELSE Head(texts) \o Concat(Tail(texts))

Spaces(text) == \A k \in 1..Len(text) : text[k] = " "
IsPrefix(a, b) == Len(a) <= Len(b) /\ SubSeq(b, 1, Len(a)) = a

\* Where the output of the first i signals ends in the output of all of them.
LineEnd(sigs, i) == Len(generateAsciiArt(SubSeq(sigs, 1, i)).value)

\* The part of text that signal i of sigs produced: its line.
LineOf(text, sigs, i) == SubSeq(text, LineEnd(sigs, i - 1) + 1, LineEnd(sigs, i))

\* The first place of a line where ": " stands (0 when there is none).
SepAt(line) ==
    LET at == {k \in 1..(Len(line) - 1) : line[k] = ":" /\ line[k + 1] = " "}
    IN  IF at = {} THEN 0 ELSE CHOOSE k \in at : \A m \in at : k <= m

LabelField(line) == SubSeq(line, 1, SepAt(line) - 1)
WaveField(line) == SubSeq(line, SepAt(line) + 2, Len(line) - 1)
WellFormed(line) == SepAt(line) > 0 /\ line[Len(line)] = "\n"

\* Where the run of slot k starts in the wave field, less one.
RECURSIVE Offset(_, _)
Offset(wave, k) == IF k <= 1 THEN 0 ELSE Offset(wave, k - 1) + Width(wave[k - 1])

Slot(field, wave, k) ==
    SubSeq(field, Offset(wave, k) + 1, Offset(wave, k) + Width(wave[k]))

-----------------------------------------------------------------------------
(* The claims.                                                             *)

\* The signals with every absent name or wave replaced by the empty string.
Defaulted(sigs) ==
    [i \in 1..Len(sigs) |->
        [key \in DOMAIN sigs[i] \cup {"name", "wave"} |->
            IF key \in DOMAIN sigs[i] THEN sigs[i][key] ELSE <<>>]]

\* C1: generateAsciiArt never raises: whichever signals lack name, wave or
\* both, the call returns, and returns the text it returns with each absent
\* field given as the empty string; a signal with neither field yields 10
\* spaces, ": " and a newline.
C1_AbsentFieldsRenderAsEmpty ==
    pc = "rendered" =>
        /\ result.kind = "return"
        /\ result = generateAsciiArt(Defaulted(signals))
        /\ signals = <<Signal(None, None, None)>> =>
              result.value = repeat(<<" ">>, 10) \o <<":", " ", "\n">>

\* C2: a call on signals that all have name and wave returns, and the wave
\* field of the line of every signal whose wave holds only the tokens
\* P 0 1 . x = is 6 code units long for each P plus 4 for each other token,
\* and is the runs of the table in order with nothing between them.
C2_WaveFieldIsRunsInOrder ==
    (pc = "rendered" /\ Complete(signals)) =>
        /\ result.kind = "return"
        /\ \A i \in 1..Len(signals) :
               LET wave == WaveOf(signals[i])
                   line == LineOf(result.value, signals, i)
                   field == WaveField(line)
                   nP == Cardinality({k \in 1..Len(wave) : wave[k] = "P"})
               IN  (\A k \in 1..Len(wave) : wave[k] \in Tokens) =>
                       /\ WellFormed(line)
                       /\ Len(field) = 6 * nP + 4 * (Len(wave) - nP)
                       /\ \A k \in 1..Len(wave) : Slot(field, wave, k) = waveMapping[wave[k]]

C2_Witness ==
    /\ pc = "rendered" /\ result.kind = "return"
    /\ \E i \in 1..Len(signals) :
          /\ WaveOf(signals[i]) = <<".", "P", "0">>
          /\ Len(WaveField(LineOf(result.value, signals, i))) = 14

\* The signals with code unit k of signal i's wave replaced by char.
WithWaveChar(sigs, i, k, char) ==
    [sigs EXCEPT ![i] = [sigs[i] EXCEPT !["wave"] = [sigs[i]["wave"] EXCEPT ![k] = char]]]

\* C3: a call on signals that all have name and wave returns whatever code
\* units the waves hold (nothing aborts it); every code unit of a wave that
\* is none of the six tokens is rendered as "????" in its slot, and nothing
\* else of the output depends on it: with a token of the same width in its
\* place, the call returns the same text outside that slot.
C3_UnknownTokenIsPlaceholder ==
    (pc = "rendered" /\ Complete(signals)) =>
        /\ result.kind = "return"
        /\ \A i \in 1..Len(signals) : \A k \in 1..Len(WaveOf(signals[i])) :
               LET wave == WaveOf(signals[i])
                   line == LineOf(result.value, signals, i)
                   from == LineEnd(signals, i - 1) + SepAt(line) + 1 + Offset(wave, k)
                   other == generateAsciiArt(WithWaveChar(signals, i, k, "x"))
               IN  wave[k] \notin Tokens =>
                       /\ WellFormed(line)
                       /\ Slot(WaveField(line), wave, k) = <<"?", "?", "?", "?">>
                       /\ other.kind = "return"
                       /\ Len(other.value) = Len(result.value)
                       /\ \A q \in 1..Len(result.value) :
                             q \notin (from + 1)..(from + 4) => other.value[q] = result.value[q]

C3_Witness ==
    /\ pc = "rendered" /\ result.kind = "return"
    /\ Len(signals) = 2
    /\ WaveOf(signals[1]) = <<"p", "=">>
    /\ SubSeq(result.value, 14, 17) = <<"?", "?", "?", "?">>

\* C4: a call on signals that all have name and wave returns, and the label
\* field of the line of every signal whose name is shorter than 10 is exactly
\* 10 long and is the name followed by spaces only.
C4_ShortNameIsPaddedTo10 ==
    (pc = "rendered" /\ Complete(signals)) =>
        /\ result.kind = "return"
        /\ \A i \in 1..Len(signals) :
               LET name == NameOf(signals[i])
                   line == LineOf(result.value, signals, i)
                   label == LabelField(line)
               IN  Len(name) < 10 =>
                       /\ WellFormed(line)
                       /\ Len(label) = 10
                       /\ IsPrefix(name, label)
                       /\ Spaces(SubSeq(label, Len(name) + 1, Len(label)))

C4_Witness ==
    /\ pc = "rendered" /\ result.kind = "return"
    /\ \E i \in 1..Len(signals) :
          /\ Len(NameOf(signals[i])) = 9
          /\ LabelField(LineOf(result.value, signals, i)) = NameOf(signals[i]) \o <<" ">>

\* C5: a call on signals that all have name and wave returns, and the label
\* field of the line of every signal whose name is 10 long or longer is the
\* name itself, neither cut nor padded.
C5_LongNameIsUnmodified ==
    (pc = "rendered" /\ Complete(signals)) =>
        /\ result.kind = "return"
        /\ \A i \in 1..Len(signals) :
               LET name == NameOf(signals[i])
                   line == LineOf(result.value, signals, i)
               IN  Len(name) >= 10 => WellFormed(line) /\ LabelField(line) = name

C5_Witness ==
    /\ pc = "rendered" /\ result.kind = "return"
    /\ \E i \in 1..Len(signals) :
          /\ Len(NameOf(signals[i])) = 11
          /\ LabelField(LineOf(result.value, signals, i)) = NameText

\* C6: rendering [{name:"clk", wave:"P."}, {name:"Data", wave:"01x"}] returns
\* exactly two lines: "clk" and 7 spaces, ": ", "|", 4 overlines, "|" and 4
\* spaces, newline; then "Data" and 6 spaces, ": ", "____", 4 overlines,
\* "xxxx", newline.
ExampleSignals ==
    << [name |-> <<"c", "l", "k">>, wave |-> <<"P", ".">>],
       [name |-> <<"D", "a", "t", "a">>, wave |-> <<"0", "1", "x">>] >>

ExampleText ==
    <<"c", "l", "k", " ", " ", " ", " ", " ", " ", " ", ":", " ",
      "|", "U+203E", "U+203E", "U+203E", "U+203E", "|", " ", " ", " ", " ", "\n",
      "D", "a", "t", "a", " ", " ", " ", " ", " ", " ", ":", " ",
      "_", "_", "_", "_", "U+203E", "U+203E", "U+203E", "U+203E",
      "x", "x", "x", "x", "\n">>

C6_ExampleRendersAsDocumented ==
    (pc = "rendered" /\ signals = ExampleSignals) =>
        result = [kind |-> "return", value |-> ExampleText]

C6_Witness ==
    /\ pc = "rendered" /\ signals = ExampleSignals
    /\ result.kind = "return" /\ Len(result.value) = 48

\* C7: rendering is order-preserving: a call on the same signals in another
\* order completes the same way (returns or throws) as the first call, and
\* the text it returns is the lines of the first call's text in that order;
\* in the same order, it returns the same text.
C7_PermutedInputPermutesLines ==
    (pc = "compared" /\ rel.op = "perm") =>
        /\ result2.kind = result.kind
        /\ result.kind = "return" =>
              result2.value =
                  Concat([j \in 1..Len(signals) |->
                              LineOf(result.value, signals, rel.perm[j])])

C7_Witness ==
    /\ pc = "compared" /\ rel.op = "perm" /\ rel.perm = <<3, 1, 2>>
    /\ result.kind = "return" /\ result2.kind = "return"
    /\ result2.value # result.value

\* C8: the completion of a call on s1..sn is that of the calls on each signal
\* alone, in order: when all of them return, it returns their texts one after
\* the other with nothing between, each of them ending with a newline; when
\* one of them throws, it throws.
C8_OutputIsConcatenationOfSingles ==
    pc = "rendered" =>
        LET alone == [i \in 1..Len(signals) |-> generateAsciiArt(<<signals[i]>>)]
        IN  IF \A i \in 1..Len(signals) : alone[i].kind = "return"
            THEN /\ result.kind = "return"
                 /\ result.value = Concat([i \in 1..Len(signals) |-> alone[i].value])
                 /\ \A i \in 1..Len(signals) :
                       alone[i].value[Len(alone[i].value)] = "\n"
            ELSE result.kind = "TypeError"

C8_Witness ==
    /\ pc = "rendered" /\ Len(signals) = 3 /\ result.kind = "return"
    /\ signals[1] # signals[2] /\ signals[2] # signals[3]

\* C9: rendering the empty signal array returns the empty string.
C9_EmptyInputRendersEmpty ==
    (pc = "rendered" /\ signals = <<>>) => result = [kind |-> "return", value |-> <<>>]

C9_Witness == pc = "rendered" /\ signals = <<>> /\ result.kind = "return"

\* C10: the renderer does not read data: a call on the same signals with data
\* added, removed or changed on any of them completes exactly as the first
\* call did, with the same text.
C10_DataIsIgnored ==
    (pc = "compared" /\ rel.op = "data") => result2 = result

C10_Witness ==
    /\ pc = "compared" /\ rel.op = "data"
    /\ result.kind = "return" /\ result2 = result
    /\ \E i \in 1..Len(signals) :
          /\ Has(signals[i], "data") /\ ~Has(signals2[i], "data")
          /\ WaveOf(signals[i]) = <<"x", "=">>
    /\ \E i \in 1..Len(signals) :
          ~Has(signals[i], "data") /\ Has(signals2[i], "data")

\* The run's input, by the failure it is.
NoFileChosen == cmdInput.fileUri.t = "undefined" \/ Len(cmdInput.fileUri.v) = 0
FileRead == ~NoFileChosen /\ cmdInput.file.readable
NotJson == FileRead /\ ~cmdInput.file.valid
HasSignalArray ==
    /\ cmdInput.file.value.t = "object"
    /\ "signal" \in DOMAIN cmdInput.file.value.v[1]
    /\ cmdInput.file.value.v[1]["signal"].t = "array"
NoSignalArray == FileRead /\ cmdInput.file.valid /\ ~HasSignalArray

Calls(fn) == {i \in 1..Len(cmdLog) : cmdLog[i].fn = fn}
Messages == {cmdLog[i].msg : i \in Calls("showWarningMessage") \cup Calls("showErrorMessage")}

\* C11: the generateAscii command fails closed: in a run where no file is
\* chosen, the content is not JSON or the decoded value has no signal array,
\* a message is shown, no exception leaves the handler and no text document
\* is opened; and whenever a text document is opened, the renderer has
\* returned before, and the document holds the text it returned.
C11_CommandFailsClosed ==
    cmdPc = "done" =>
        /\ (NoFileChosen \/ NotJson \/ NoSignalArray) =>
              /\ Messages # {}
              /\ ~cmdEscaped
              /\ Calls("openTextDocument") = {}
              /\ Calls("showTextDocument") = {}
        /\ \A i \in Calls("openTextDocument") :
              \E j \in Calls("generateAsciiArt") :
                  /\ j < i
                  /\ cmdLog[j].msg = "return"
                  /\ cmdLog[j].text = cmdLog[i].text

C11_Witness ==
    /\ cmdPc = "done" /\ NotJson
    /\ Messages = {ErrorOccurred} /\ ~cmdEscaped
    /\ Calls("openTextDocument") = {}

\* C12: the generateAscii command tells its failures apart: with no file
\* chosen it shows the warning and does nothing else; with a decoded value
\* whose signal is missing or no array it shows the 'Missing "signal" array'
\* error and no other message; with content that is not JSON it shows another
\* message than that; and the renderer is called only on a signal that is an
\* array.
C12_FailuresAreDistinct ==
    cmdPc = "done" =>
        /\ NoFileChosen =>
              cmdLog = << Call("showOpenDialog", "", <<>>),
                          Call("showWarningMessage", NoFileSelected, <<>>) >>
        /\ NoSignalArray =>
              /\ Messages = {MissingSignalArray}
              /\ Calls("showWarningMessage") = {}
        /\ NotJson =>
              /\ Messages # {}
              /\ MissingSignalArray \notin Messages
              /\ Calls("showWarningMessage") = {}
        /\ Calls("generateAsciiArt") # {} => (FileRead /\ cmdInput.file.valid /\ HasSignalArray)

C12_Witness ==
    /\ cmdPc = "done" /\ NoSignalArray
    /\ cmdInput.file.value = JObject([signal |-> JString(<<"0", "1">>)])
    /\ Messages = {MissingSignalArray}
    /\ Calls("generateAsciiArt") = {}

\* Reading the panel: the panels that exist, the subscriptions that are
\* registered, the watched document, and what a panel shows of a document.
OpenPanels == {p \in 1..Len(panels) : ~panels[p].disposed}
LiveSubscriptions == {id \in 1..Len(subscriptions) : subscriptions[id]}
Watches(d) == livePreviewDocumentPath.t = "string" /\ livePreviewDocumentPath.v = DocPath(d)
BaseName(d) == IF d = 1 THEN <<"a", ".", "j">> ELSE <<"b", ".", "j">>
Shows(p, d) ==
    /\ panels[p].html = [page |-> "WaveDrom",
                         waveformJson |-> [doc |-> d, version |-> documents[d]]]
    /\ panels[p].title = TitlePrefix \o BaseName(d)

\* C13: while live preview is on, after every edit of the watched document
\* the panel exists and shows that document's current text, whichever
\* document is the active editor.
C13_EditOfWatchedDocumentRerenders ==
    (last.op = "edit" /\ livePreview /\ Watches(last.doc)) =>
        /\ currentPanel # 0
        /\ panels[currentPanel].html.waveformJson =
               [doc |-> last.doc, version |-> documents[last.doc]]

\* C14: at most one panel exists at any time, and one exists exactly when
\* currentPanel is set, which is then that panel.
C14_AtMostOnePanel ==
    /\ Cardinality(OpenPanels) <= 1
    /\ Cardinality(OpenPanels) = 1 <=> currentPanel # 0
    /\ currentPanel # 0 => currentPanel \in OpenPanels

C14_Witness ==
    /\ Len(panels) = 2 /\ panels[1].disposed /\ ~panels[2].disposed
    /\ currentPanel = 2 /\ last.op = "edit"

\* C15: while live preview is on, the panel shows only the document where
\* live preview was activated, its title and a text of it, also after the
\* panel was closed and text-change events arrived with another document
\* active.
C15_PanelShowsOnlyWatchedDocument ==
    (livePreview /\ currentPanel # 0) =>
        \E d \in Docs :
            /\ Watches(d)
            /\ panels[currentPanel].html.waveformJson.doc = d
            /\ panels[currentPanel].title = TitlePrefix \o BaseName(d)

\* C16: livePreview is true exactly when one text-change subscription is
\* registered and the watched path is set; never more than one subscription
\* is registered, the one listenerTextChange holds; also after handlers that
\* threw for want of an active editor.
C16_LivePreviewStateConsistent ==
    /\ livePreview <=>
          (Cardinality(LiveSubscriptions) = 1 /\ livePreviewDocumentPath.t = "string")
    /\ Cardinality(LiveSubscriptions) <= 1
    /\ LiveSubscriptions \subseteq {listenerTextChange}

C16_Witness ==
    /\ livePreview /\ listenerTextChange = 2
    /\ Len(subscriptions) = 2 /\ ~subscriptions[1] /\ subscriptions[2]
    /\ last.op = "edit" /\ last.threw

\* C17: after the start command, from any state, livePreview is false, the
\* watched path is null and no text-change subscription is registered; with
\* an active editor the panel exists and shows the active document's current
\* text and title; and while live preview is off no edit changes a panel.
C17_AfterStart ==
    last.op = "start" =>
        /\ ~livePreview
        /\ livePreviewDocumentPath.t = "null"
        /\ LiveSubscriptions = {}
        /\ activeTextEditor # 0 =>
              /\ ~last.threw
              /\ currentPanel \in OpenPanels
              /\ Shows(currentPanel, activeTextEditor)

C17_StartLeavesLivePreviewOff ==
    /\ []C17_AfterStart
    /\ [][(~livePreview /\ documents' # documents) =>
             (panels' = panels /\ currentPanel' = currentPanel)]_vars

C17_Witness ==
    /\ last.op = "start" /\ ~last.threw
    /\ Len(subscriptions) = 1 /\ listenerTextChange = 1 /\ ~subscriptions[1]
    /\ currentPanel = 1 /\ Shows(1, activeTextEditor)
    /\ documents[activeTextEditor] = 1

\* C18: a panel that is closed is never written again: closing clears
\* currentPanel, currentPanel never holds a closed panel, no step changes the
\* title or html of a closed panel, and a createOrShow that finds no panel
\* creates a new one.
C18_ClosedPanelUntouched ==
    /\ [](last.op = "close" => currentPanel = 0)
    /\ [](currentPanel # 0 => ~panels[currentPanel].disposed)
    /\ [][\A p \in 1..Len(panels) : panels[p].disposed => panels'[p] = panels[p]]_vars
    /\ [][(currentPanel = 0 /\ currentPanel' # 0) =>
             /\ currentPanel' = Len(panels) + 1
             /\ Len(panels') = Len(panels) + 1
             /\ ~panels'[currentPanel'].disposed]_vars

C18_Witness ==
    /\ Len(panels) = 2 /\ panels[1].disposed /\ currentPanel = 2
    /\ last.op = "start"
    /\ panels[1].html.waveformJson.version < panels[2].html.waveformJson.version

====
